---- MODULE Spec2Model ----
(***************************************************************************)
(* Model of wroclaw_temperature.py: the two fetch functions, the window    *)
(* slicer, the plot step and the script body that chains them.             *)
(*                                                                         *)
(* Time is counted in ticks, TicksPerHour ticks to the hour, so that a     *)
(* datetime is an integer and timedelta(hours=h) is h * TicksPerHour.      *)
(* Temperatures are counted in tenths of a degree.  Python lists are       *)
(* objects on a heap (a sequence of lists); a variable holding a list      *)
(* holds its index in the heap, and None is 0.                             *)
(***************************************************************************)
EXTENDS Integers, Sequences, FiniteSets

VARIABLES
    pc,            \* position of the running code
    error,         \* kind of the exception that escaped, "none" if none
    heap,          \* the list objects created so far
    executed,      \* the steps of the script body started so far, in order
    temperature,   \* __main__: temperature (tenths of a degree)
    stdout,        \* lines printed
    all_times,     \* __main__: all_times (heap reference)
    all_temps,     \* __main__: all_temps (heap reference)
    now,           \* __main__: now
    window_times,  \* __main__: window_times (heap reference)
    window_temps,  \* __main__: window_temps (heap reference)
    figure,        \* figures shown by plt.show()
    timestamps,    \* slice_temperature_window: argument timestamps
    temperatures,  \* slice_temperature_window: argument temperatures
    reference,     \* slice_temperature_window: argument reference
    past_hours,    \* slice_temperature_window: argument past_hours
    future_hours,  \* slice_temperature_window: argument future_hours
    sliced_times,  \* slice_temperature_window: first returned list
    sliced_temps   \* slice_temperature_window: second returned list

vars == <<pc, error, heap, executed, temperature, stdout, all_times, all_temps,
          now, window_times, window_temps, figure, timestamps, temperatures,
          reference, past_hours, future_hours, sliced_times, sliced_temps>>

mainVars == <<temperature, stdout, all_times, all_temps, now, window_times,
              window_temps, figure>>

frameVars == <<timestamps, temperatures, reference, past_hours, future_hours,
               sliced_times, sliced_temps>>

----------------------------------------------------------------------------
(* Bounds *)

MaxLen == 3          \* longest list drawn as an input
MaxTime == 3         \* datetimes of the direct calls are 0..MaxTime ticks
MaxHours == 1        \* past_hours, future_hours of the direct calls
TicksPerHour == 2    \* resolution of the clock

(* Program constants *)

DefaultPastHours == 8
DefaultFutureHours == 8

None == 0

Min(a, b) == IF a <= b THEN a ELSE b

SeqsUpTo(S, n) == UNION {[1..k -> S] : k \in 0..n}

Has(s, x) == \E k \in 1..Len(s) : s[k] = x

----------------------------------------------------------------------------
(* The HTTP response and its JSON payload.                                 *)
(* An optional member is <<>> when absent (dict.get gives None) and <<v>>  *)
(* when present.  An ISO-8601 string is [hour, frac]; frac = TicksPerHour  *)
(* is a string datetime.fromisoformat rejects.  A JSON number is           *)
(* [int, tenths].                                                          *)

ApiHours == {0, DefaultPastHours, DefaultPastHours + DefaultFutureHours + 1}

IsoStrings == {[hour |-> h, frac |-> 0] : h \in ApiHours}
                  \cup {[hour |-> 0, frac |-> TicksPerHour]}

JsonNumbers == {[int |-> 10, tenths |-> 0], [int |-> 10, tenths |-> 5]}

CurrentObjects == [keys : SUBSET {"temperature", "time"}, temperature : JsonNumbers]

HourlyObjects ==
    [time : {<<>>} \cup {<<s>> : s \in SeqsUpTo(IsoStrings, MaxLen)},
     temperature_2m : {<<>>} \cup {<<s>> : s \in SeqsUpTo(JsonNumbers, MaxLen)}]

NoCurrent == <<>>
NoHourly == <<>>

CurrentResponses ==
    {[kind |-> k, current_weather |-> NoCurrent] : k \in {"URLError", "undecodable", "json"}}
        \cup {[kind |-> "json", current_weather |-> <<c>>] : c \in CurrentObjects}

HourlyResponses ==
    {[kind |-> k, hourly |-> NoHourly] : k \in {"URLError", "undecodable", "json"}}
        \cup {[kind |-> "json", hourly |-> <<h>>] : h \in HourlyObjects}

(* float(value) of a JSON number, in tenths *)
float(value) == value.int * 10 + value.tenths

(* datetime.fromisoformat(value), in ticks; defined for valid strings *)
ValidIso(value) == value.frac < TicksPerHour
fromisoformat(value) == value.hour * TicksPerHour + value.frac

(* timedelta(hours=h), in ticks *)
timedelta(hours) == hours * TicksPerHour

(* f"{temperature:.1f}" *)
FormatTemperature(t) == [int |-> t \div 10, tenths |-> t % 10]

(* datetime.now().replace(minute=0, second=0, microsecond=0) *)
TruncateToHour(t) == (t \div TicksPerHour) * TicksPerHour

ClockTicks == {timedelta(DefaultPastHours), timedelta(DefaultPastHours) + 1,
               timedelta(DefaultPastHours + 1)}

----------------------------------------------------------------------------
(* slice_temperature_window *)

InWindow_tuple(window_start, timestamp, window_end) ==
    timestamp \in {window_start, window_end}

InWindow_open(window_start, timestamp, window_end) ==
    window_start <= timestamp /\ timestamp < window_end

InWindow(window_start, timestamp, window_end) ==
    window_start <= timestamp /\ timestamp <= window_end

ListAppend_front(list, x) == <<x>> \o list

ListAppend(list, x) == Append(list, x)

ZipLen_short(a, b) == IF Min(Len(a), Len(b)) = 0 THEN 0 ELSE Min(Len(a), Len(b)) - 1

ZipLen(a, b) == Min(Len(a), Len(b))

RECURSIVE SliceLoop(_, _, _, _, _, _, _, _)
SliceLoop(h, ts, tp, st, sp, window_start, window_end, i) ==
    IF i > ZipLen(h[ts], h[tp])
    THEN h
    ELSE IF InWindow(window_start, h[ts][i], window_end)
         THEN SliceLoop([h EXCEPT ![st] = ListAppend(@, h[ts][i]),
                                  ![sp] = ListAppend(@, h[tp][i])],
                        ts, tp, st, sp, window_start, window_end, i + 1)
         ELSE SliceLoop(h, ts, tp, st, sp, window_start, window_end, i + 1)

slice_raising(h, ts, tp, ref, past, future) ==
    LET window_start == ref - timedelta(past)
        window_end == ref + timedelta(future)
        st == Len(h) + 1
        sp == Len(h) + 2
        h1 == SliceLoop(h \o << <<>>, <<>> >>, ts, tp, st, sp, window_start, window_end, 1)
    IN  [heap |-> h1, sliced_times |-> st, sliced_temps |-> sp,
         raised |-> IF h1[st] = <<>> THEN "ValueError" ELSE "none"]

slice_aliasing(h, ts, tp, ref, past, future) ==
    LET window_start == ref - timedelta(past)
        window_end == ref + timedelta(future)
        st == Len(h) + 1
        sp == Len(h) + 2
        h1 == SliceLoop(h \o << <<>>, <<>> >>, ts, tp, st, sp, window_start, window_end, 1)
    IN  IF h1[st] = h[ts] /\ h1[sp] = h[tp]
        THEN [heap |-> h, sliced_times |-> ts, sliced_temps |-> tp, raised |-> "none"]
        ELSE [heap |-> h1, sliced_times |-> st, sliced_temps |-> sp, raised |-> "none"]

slice_temperature_window(h, ts, tp, ref, past, future) ==
    LET window_start == ref - timedelta(past)
        window_end == ref + timedelta(future)
        st == Len(h) + 1
        sp == Len(h) + 2
    IN  [heap |-> SliceLoop(h \o << <<>>, <<>> >>, ts, tp, st, sp,
                            window_start, window_end, 1),
         sliced_times |-> st, sliced_temps |-> sp, raised |-> "none"]

----------------------------------------------------------------------------
(* The script body *)

PipelineOrder == <<"fetch_current", "print", "fetch_hourly", "slice", "plot">>

Init ==
    /\ pc = "fetch_current"
    /\ error = "none"
    /\ heap = <<>>
    /\ executed = <<>>
    /\ temperature = 0
    /\ stdout = <<>>
    /\ all_times = None
    /\ all_temps = None
    /\ now = 0
    /\ window_times = None
    /\ window_temps = None
    /\ figure = <<>>
    /\ timestamps = None
    /\ temperatures = None
    /\ reference = 0
    /\ past_hours = 0
    /\ future_hours = 0
    /\ sliced_times = None
    /\ sliced_temps = None

Raise(kind) ==
    /\ error' = kind
    /\ pc' = "failed"

(* not current or "temperature" not in current *)
CurrentMissing(current) ==
    \/ current = <<>>
    \/ current[1].keys = {}
    \/ "temperature" \notin current[1].keys

FetchCurrentTemperature_retry ==
    /\ pc = "fetch_current"
    /\ executed' = Append(executed, "fetch_current")
    /\ \E response \in CurrentResponses :
          IF response.kind = "URLError"
          THEN /\ pc' = "fetch_current"
               /\ Len(executed) < 2
               /\ UNCHANGED <<error, temperature>>
          ELSE IF response.kind = "undecodable"
          THEN Raise("JSONDecodeError") /\ UNCHANGED temperature
          ELSE IF CurrentMissing(response.current_weather)
          THEN Raise("RuntimeError") /\ UNCHANGED temperature
          ELSE /\ temperature' = float(response.current_weather[1].temperature)
               /\ pc' = "print"
               /\ UNCHANGED error
    /\ UNCHANGED <<heap, stdout, all_times, all_temps, now, window_times,
                   window_temps, figure, frameVars>>

FetchCurrentTemperature ==
    /\ pc = "fetch_current"
    /\ executed' = Append(executed, "fetch_current")
    /\ \E response \in CurrentResponses :
          IF response.kind = "URLError"
          THEN Raise("RuntimeError") /\ UNCHANGED temperature
          ELSE IF response.kind = "undecodable"
          THEN Raise("JSONDecodeError") /\ UNCHANGED temperature
          ELSE IF CurrentMissing(response.current_weather)
          THEN Raise("RuntimeError") /\ UNCHANGED temperature
          ELSE /\ temperature' = float(response.current_weather[1].temperature)
               /\ pc' = "print"
               /\ UNCHANGED error
    /\ UNCHANGED <<heap, stdout, all_times, all_temps, now, window_times,
                   window_temps, figure, frameVars>>

PrintTemperature ==
    /\ pc = "print"
    /\ executed' = Append(executed, "print")
    /\ stdout' = Append(stdout, FormatTemperature(temperature))
    /\ pc' = "fetch_hourly"
    /\ UNCHANGED <<error, heap, temperature, all_times, all_temps, now,
                   window_times, window_temps, figure, frameVars>>

(* hourly = payload.get("hourly") or {}; times = hourly.get("time"); ... *)
HourlyTimes(hourly) == IF hourly = <<>> THEN <<>> ELSE hourly[1].time
HourlyTemps(hourly) == IF hourly = <<>> THEN <<>> ELSE hourly[1].temperature_2m

HourlyMissing_nolen(times, temps) ==
    \/ times = <<>> \/ times[1] = <<>>
    \/ temps = <<>> \/ temps[1] = <<>>

(* not times or not temps or len(times) != len(temps) *)
HourlyMissing(times, temps) ==
    \/ times = <<>> \/ times[1] = <<>>
    \/ temps = <<>> \/ temps[1] = <<>>
    \/ Len(times[1]) # Len(temps[1])

FetchHourlyTemperatures ==
    /\ pc = "fetch_hourly"
    /\ executed' = Append(executed, "fetch_hourly")
    /\ \E response \in HourlyResponses :
          LET times == HourlyTimes(response.hourly)
              temps == HourlyTemps(response.hourly)
          IN  IF response.kind = "URLError"
              THEN Raise("RuntimeError") /\ UNCHANGED <<heap, all_times, all_temps>>
              ELSE IF response.kind = "undecodable"
              THEN Raise("JSONDecodeError") /\ UNCHANGED <<heap, all_times, all_temps>>
              ELSE IF HourlyMissing(times, temps)
              THEN Raise("RuntimeError") /\ UNCHANGED <<heap, all_times, all_temps>>
              ELSE IF \E k \in 1..Len(times[1]) : ~ValidIso(times[1][k])
              THEN Raise("ValueError") /\ UNCHANGED <<heap, all_times, all_temps>>
              ELSE /\ heap' = heap \o
                        << [k \in 1..Len(times[1]) |-> fromisoformat(times[1][k])],
                           [k \in 1..Len(temps[1]) |-> float(temps[1][k])] >>
                   /\ all_times' = Len(heap) + 1
                   /\ all_temps' = Len(heap) + 2
                   /\ pc' = "now"
                   /\ UNCHANGED error
    /\ UNCHANGED <<temperature, stdout, now, window_times, window_temps, figure,
                   frameVars>>

Now ==
    /\ pc = "now"
    /\ \E clock \in ClockTicks : now' = TruncateToHour(clock)
    /\ pc' = "slice"
    /\ UNCHANGED <<error, heap, executed, temperature, stdout, all_times,
                   all_temps, window_times, window_temps, figure, frameVars>>

(* Binding the arguments of a call of slice_temperature_window and         *)
(* receiving its result (or the exception it raises).                      *)
CallSlice(ts, tp, ref, past, future, return_pc) ==
    LET r == slice_temperature_window(heap, ts, tp, ref, past, future)
    IN  /\ timestamps' = ts
        /\ temperatures' = tp
        /\ reference' = ref
        /\ past_hours' = past
        /\ future_hours' = future
        /\ IF r.raised # "none"
           THEN /\ Raise(r.raised)
                /\ UNCHANGED <<heap, sliced_times, sliced_temps>>
           ELSE /\ heap' = r.heap
                /\ sliced_times' = r.sliced_times
                /\ sliced_temps' = r.sliced_temps
                /\ pc' = return_pc
                /\ UNCHANGED error

MainSlice ==
    /\ pc = "slice"
    /\ executed' = Append(executed, "slice")
    /\ CallSlice(all_times, all_temps, now, DefaultPastHours, DefaultFutureHours, "plot")
    /\ IF error' = "none"
       THEN window_times' = sliced_times' /\ window_temps' = sliced_temps'
       ELSE UNCHANGED <<window_times, window_temps>>
    /\ UNCHANGED <<temperature, stdout, all_times, all_temps, now, figure>>

(* if not timestamps *)
PlotEmpty_none(ts) == ts = None

PlotEmpty(ts) == heap[ts] = <<>>

PlotTemperatureWindow ==
    /\ pc = "plot"
    /\ executed' = Append(executed, "plot")
    /\ IF PlotEmpty(window_times)
       THEN Raise("RuntimeError") /\ UNCHANGED figure
       ELSE /\ figure' = Append(figure, [x |-> heap[window_times],
                                         y |-> heap[window_temps]])
            /\ pc' = "done"
            /\ UNCHANGED error
    /\ UNCHANGED <<heap, temperature, stdout, all_times, all_temps, now,
                   window_times, window_temps, frameVars>>

Next ==
    \/ FetchCurrentTemperature
    \/ PrintTemperature
    \/ FetchHourlyTemperatures
    \/ Now
    \/ MainSlice
    \/ PlotTemperatureWindow

Spec == Init /\ [][Next]_vars

----------------------------------------------------------------------------
(* Direct calls of slice_temperature_window on arbitrary bounded inputs,   *)
(* followed by a second call on the lists the first one returned.          *)

Times == 0..MaxTime
Temps == {100, 105}

InitSlice ==
    /\ pc = "call"
    /\ error = "none"
    /\ \E ts \in SeqsUpTo(Times, MaxLen), tp \in SeqsUpTo(Temps, MaxLen) :
          heap = <<ts, tp>>
    /\ timestamps = 1
    /\ temperatures = 2
    /\ reference \in Times
    /\ past_hours \in 0..MaxHours
    /\ future_hours \in 0..MaxHours
    /\ sliced_times = None
    /\ sliced_temps = None
    /\ executed = <<>>
    /\ temperature = 0
    /\ stdout = <<>>
    /\ all_times = None
    /\ all_temps = None
    /\ now = 0
    /\ window_times = None
    /\ window_temps = None
    /\ figure = <<>>

Call ==
    /\ pc = "call"
    /\ CallSlice(timestamps, temperatures, reference, past_hours, future_hours, "returned")
    /\ UNCHANGED <<executed, mainVars>>

ReSlice ==
    /\ pc = "returned"
    /\ CallSlice(sliced_times, sliced_temps, reference, past_hours, future_hours, "resliced")
    /\ UNCHANGED <<executed, mainVars>>

NextSlice == Call \/ ReSlice

SliceSpec == InitSlice /\ [][NextSlice]_vars

----------------------------------------------------------------------------
(* Properties *)

Returned == sliced_times # None

InTimes == heap[timestamps]
InTemps == heap[temperatures]
OutTimes == heap[sliced_times]
OutTemps == heap[sliced_temps]

(* the series handed to the slicer is the pairs zip() forms *)
SeriesLen == Min(Len(InTimes), Len(InTemps))

WindowLo == reference - past_hours * TicksPerHour
WindowHi == reference + future_hours * TicksPerHour

CountIn(t, v) == Cardinality({i \in 1..SeriesLen : InTimes[i] = t /\ InTemps[i] = v})
CountOut(t, v) == Cardinality({k \in 1..Len(OutTimes) : OutTimes[k] = t /\ OutTemps[k] = v})

(* C1: the slicer returns exactly the pairs of the series whose timestamp  *)
(* t satisfies reference - past <= t <= reference + future: every returned *)
(* pair passes the closed-interval test, every pair of the series inside   *)
(* the interval is returned as often as it occurs, and every pair outside  *)
(* it is not returned.                                                     *)
C1_ExactlyClosedInterval ==
    Returned =>
        /\ Len(OutTimes) = Len(OutTemps)
        /\ \A k \in 1..Len(OutTimes) :
              /\ WindowLo <= OutTimes[k] /\ OutTimes[k] <= WindowHi
              /\ CountIn(OutTimes[k], OutTemps[k]) > 0
        /\ \A i \in 1..SeriesLen :
              CountOut(InTimes[i], InTemps[i]) =
                  IF WindowLo <= InTimes[i] /\ InTimes[i] <= WindowHi
                  THEN CountIn(InTimes[i], InTemps[i])
                  ELSE 0

C1_Witness ==
    /\ pc = "returned"
    /\ past_hours = 0 /\ future_hours = 0
    /\ Len(InTimes) >= 3 /\ Len(InTemps) >= 3
    /\ OutTimes = <<reference>>
    /\ \E i \in 1..SeriesLen : InTimes[i] < reference
    /\ \E i \in 1..SeriesLen : InTimes[i] > reference

(* C2: the result is a subsequence of the series in original order: there  *)
(* is a strictly increasing map from output positions to input positions   *)
(* under which each returned timestamp and temperature are the ones found  *)
(* at that one input index.                                                *)
C2_OrderedSubsequence ==
    Returned =>
        /\ Len(OutTimes) = Len(OutTemps)
        /\ \E f \in [1..Len(OutTimes) -> 1..SeriesLen] :
              /\ \A j, k \in 1..Len(OutTimes) : j < k => f[j] < f[k]
              /\ \A k \in 1..Len(OutTimes) :
                    OutTimes[k] = InTimes[f[k]] /\ OutTemps[k] = InTemps[f[k]]

C2_Witness ==
    /\ pc = "returned"
    /\ Len(OutTimes) = 2
    /\ SeriesLen >= 3
    /\ OutTimes[1] # OutTimes[2]
    /\ OutTemps[1] # OutTemps[2]

(* C3: slicing the lists a call returned, with the same reference and      *)
(* durations, returns lists equal to them.                                 *)
C3_Idempotent ==
    pc = "resliced" => OutTimes = InTimes /\ OutTemps = InTemps

C3_Witness ==
    /\ pc = "resliced"
    /\ Len(OutTimes) >= 2
    /\ Len(heap[1]) > Len(OutTimes)

(* C4: the slicer raises nothing; the lists it returns are no longer than  *)
(* the ones it was given; an empty series gives an empty result, and so    *)
(* does a window lying wholly before or wholly after the series.           *)
C4_TotalAndBounded ==
    /\ error = "none"
    /\ pc # "failed"
    /\ Returned =>
          /\ Len(OutTimes) <= Len(InTimes)
          /\ Len(OutTemps) <= Len(InTemps)
          /\ SeriesLen = 0 => OutTimes = <<>> /\ OutTemps = <<>>
          /\ (\/ \A i \in 1..SeriesLen : InTimes[i] < WindowLo
              \/ \A i \in 1..SeriesLen : InTimes[i] > WindowHi)
                => OutTimes = <<>> /\ OutTemps = <<>>

C4_Witness ==
    /\ pc = "returned"
    /\ SeriesLen >= 2
    /\ \A i \in 1..SeriesLen : InTimes[i] > WindowHi
    /\ OutTimes = <<>>
    /\ OutTemps = <<>>

SliceCallStep ==
    pc \in {"call", "returned", "slice"} =>
        /\ \A r \in 1..Len(heap) : heap'[r] = heap[r]
        /\ heap'[timestamps'] = heap[timestamps']
        /\ heap'[temperatures'] = heap[temperatures']
        /\ error' = "none" =>
              /\ sliced_times' \notin 0..Len(heap)
              /\ sliced_temps' \notin 0..Len(heap)
              /\ sliced_times' # sliced_temps'

(* C5: a call of the slicer changes no list that existed before it, the    *)
(* two argument lists in particular, and the two lists it returns are      *)
(* objects created by the call, distinct from each other and from every    *)
(* earlier object.                                                         *)
C5_InputsUntouched == [][SliceCallStep]_vars

C5_Witness ==
    /\ pc = "returned"
    /\ Len(InTimes) >= 2
    /\ OutTimes = InTimes
    /\ OutTemps = InTemps
    /\ sliced_times # timestamps
    /\ sliced_temps # temperatures

(* C10: when the timestamps of the series are non-decreasing, the returned *)
(* samples are one gap-free run of the series.                             *)
C10_ContiguousWhenSorted ==
    (Returned /\ \A i, j \in 1..SeriesLen : i < j => InTimes[i] <= InTimes[j]) =>
        \E lo \in 1..(SeriesLen + 1), hi \in 0..SeriesLen :
            /\ OutTimes = SubSeq(InTimes, lo, hi)
            /\ OutTemps = SubSeq(InTemps, lo, hi)

C10_Witness ==
    /\ pc = "returned"
    /\ SeriesLen >= 3
    /\ \A i, j \in 1..SeriesLen : i < j => InTimes[i] <= InTimes[j]
    /\ InTimes[1] < WindowLo
    /\ InTimes[SeriesLen] > WindowHi
    /\ Len(OutTimes) >= 1

----------------------------------------------------------------------------
(* Properties of the script *)

LastExecuted == IF executed = <<>> THEN "" ELSE executed[Len(executed)]

(* C6: whatever goes wrong in fetch_current_temperature or                 *)
(* fetch_hourly_temperatures reaches the caller as a RuntimeError.         *)
C6_FetchFailsWithRuntimeError ==
    (error # "none" /\ LastExecuted \in {"fetch_current", "fetch_hourly"})
        => error = "RuntimeError"

(* C7: once the plot step has run, it has raised RuntimeError and drawn    *)
(* nothing exactly when the list of timestamps the slicer returned is      *)
(* empty; for a non-empty list it raised nothing and showed the figure.    *)
C7_PlotFailsIffEmpty ==
    Has(executed, "plot") =>
        /\ window_times # None
        /\ window_times = sliced_times
        /\ heap[window_times] = <<>> => error = "RuntimeError" /\ figure = <<>>
        /\ heap[window_times] # <<>> => error = "none" /\ Len(figure) = 1

C7_Witness ==
    /\ Has(executed, "plot")
    /\ Len(heap[all_times]) >= 2
    /\ heap[window_times] = <<>>
    /\ error = "RuntimeError"

(* C8: fetch_hourly_temperatures returns only two non-empty lists of equal *)
(* length, and the slicer is called only after it has returned, on those   *)
(* two lists.                                                              *)
C8_SlicerSeesWellFormedSeries ==
    /\ all_times # None =>
          /\ all_temps # None
          /\ Len(heap[all_times]) > 0
          /\ Len(heap[all_times]) = Len(heap[all_temps])
    /\ Has(executed, "slice") =>
          /\ Has(executed, "fetch_hourly")
          /\ all_times # None
          /\ timestamps = all_times
          /\ temperatures = all_temps
    /\ all_times = None => ~Returned

C8_Witness ==
    /\ Has(executed, "slice")
    /\ Len(heap[all_times]) >= 2
    /\ Len(heap[sliced_times]) >= 1

IsPrefix(s, t) == Len(s) <= Len(t) /\ \A k \in 1..Len(s) : s[k] = t[k]

PipelineStep ==
    /\ error = "none"
    /\ IsPrefix(executed', PipelineOrder)
    /\ \/ Len(executed') = Len(executed) + 1
       \/ pc = "now" /\ executed' = executed

(* C9: every step the script takes starts the next step of the order       *)
(* fetch current, print, fetch hourly, slice, display, or reads the clock  *)
(* between the hourly fetch and the slice; no step is started twice, and   *)
(* no step is taken once an error has been raised.                         *)
C9_FailStopInOrder == [][PipelineStep]_vars

C9_Witness ==
    /\ error # "none"
    /\ pc = "failed"
    /\ executed = <<"fetch_current", "print", "fetch_hourly">>
    /\ ~Returned
    /\ figure = <<>>

====
